---- MODULE Spec2Model ----
(***************************************************************************)
(* Price-refresh pipeline of the gold backend.                             *)
(*                                                                         *)
(* Two revisions of the server are modelled:                               *)
(*   - the circuit-breaker revision (src/unnamed/part_001), specification  *)
(*     SpecCB: fetchMetalPrice guarded by the process-wide breaker, the    *)
(*     12 s refresh tick and the on-demand read path;                      *)
(*   - the caching revision (src/index.js): specification Spec is the      *)
(*     15 s refresh tick with its overlapping fetches and its writes to    *)
(*     the prices table, specification SpecRead is the response cache and  *)
(*     the handler of GET /api/metals/:symbol/price.                       *)
(* Parts of src/index.js are also followed on their own: the response      *)
(* cache at its size limit (SpecCache), the prices table row by row        *)
(* (SpecTable), one call of fetchMetalPrice (SpecFetch, FairSpecFetch) and *)
(* one quote from the body of the source to GET /api/prices (SpecQuote).   *)
(* Time is the value of Date.now() in milliseconds.  One action is one     *)
(* run-to-completion segment of the Node.js event loop (the code between   *)
(* two awaits or callbacks).  The clock is observed at fixed intervals: a  *)
(* timer that has become due, a request whose timeout falls before the     *)
(* next observation and a pending database statement run before the clock  *)
(* is observed again.                                                      *)
(***************************************************************************)
EXTENDS Integers, Sequences, FiniteSets, TLC

VARIABLES
    now,                  \* Date.now()
    \* ---- src/unnamed/part_001 ----
    circuitBreakerState,  \* 'CLOSED' | 'OPEN' | 'HALF_OPEN'
    failureCount,
    lastFailureTime,
    cbCalls,              \* the fetchMetalPrice calls in progress, by call id
    cbPrices,             \* the prices table: symbol -> row or NoRow
    cbNextTick,           \* when setInterval fires updateAllMetalPrices next
    cbTickNo,             \* number of refresh ticks started so far
    cbFetches,            \* number of on-demand fetches started so far
    cbEv,                 \* history: what the last event-loop segment did
    trialCalls,           \* history: calls admitted in the current HALF_OPEN episode
    failedInARow,         \* history: completed calls that failed since the last one that succeeded
    \* ---- src/index.js ----
    prices,               \* the prices table: symbol -> row or NoRow
    calls,                \* the fetchMetalPrice calls and their per-symbol tasks, by call id
    batch,                \* the refresh ticks in progress: slot -> status
    nextTick,             \* when setInterval fires updateAllMetalPrices next
    tickNo,               \* number of refresh ticks started so far
    cache,                \* the response cache (a Map, in insertion order)
    faults,               \* number of failed fetches and failed writes so far
    req,                  \* the request to GET /api/metals/:symbol/price in progress
    requests,             \* number of requests received so far
    tzOffset,             \* the server's local time minus UTC, in milliseconds
    lastCached,           \* history: the entry that setCache stored last
    ev,                   \* history: what the last event-loop segment did
    \* ---- the prices table row by row, and one call of fetchMetalPrice ----
    pricesTable,          \* the rows of the prices table, in storage order
    fetch,                \* a call of fetchMetalPrice(metalSymbol, retries)
    \* ---- src/index.js, the signals routes ----
    signals,              \* the signals table: the number of its rows (ids 1..signals)
    sigGet,               \* the GET /api/signals in progress
    sigPost,              \* the POST /api/signals in progress
    completed,            \* statements SQLite has finished, their callbacks not yet run
    acked,                \* history: the inserts that POST /api/signals has confirmed
    sigEv                 \* history: what the last event-loop segment did

cbVars == <<circuitBreakerState, failureCount, lastFailureTime, cbCalls, cbPrices,
            cbNextTick, cbTickNo, cbFetches, cbEv, trialCalls, failedInARow>>

rdVars == <<req, requests, tzOffset, lastCached>>

ixVars == <<prices, calls, batch, nextTick, tickNo, cache, faults, rdVars, ev>>
xVars == <<pricesTable, fetch>>
sgVars == <<signals, sigGet, sigPost, completed, acked, sigEv>>

vars == <<now, cbVars, ixVars, xVars, sgVars>>

(***************************************************************************)
(* Bounds of the model.                                                    *)
(***************************************************************************)
MaxTime == 20000         \* Spec stops the clock here
MaxFaults == 3           \* failed fetches and failed database writes in one run of Spec
MaxTimeRead == 30000     \* SpecRead stops the clock here
TimeStepRead == 10000    \* SpecRead observes the clock every TimeStepRead milliseconds
MaxRequests == 2         \* requests received in one run of SpecRead
TimeStep == 5000         \* Spec observes the clock every TimeStep milliseconds
MaxTimeCB == 36000       \* SpecCB stops the clock here
MaxFetchesCB == 1        \* on-demand fetches (requests that find no row) in one run
TimeStepCB == 6000       \* SpecCB observes the clock every TimeStepCB milliseconds
NumMetals == 2           \* tracked symbols (the source configures four)

(***************************************************************************)
(* Configuration common to the revisions.                                  *)
(***************************************************************************)
\* The keys of the metals object, in insertion order; the model tracks the
\* first NumMetals of them.
AllMetalKeys == <<"XAU", "XAG", "XPT", "XPD">>
metalKeys == SubSeq(AllMetalKeys, 1, NumMetals)  \* Object.keys(metals)
metals == {metalKeys[i] : i \in 1..Len(metalKeys)}

\* The names that every object inherits from Object.prototype; two of them.
ObjectPrototypeKeys == {"constructor", "toString"}

undefined == [undefined |-> TRUE]

\* metals[metalSymbol]: the endpoint of a configured symbol, the inherited
\* member for a name of Object.prototype, undefined for anything else.
metalsGet(s) ==
    IF s \in metals THEN [kind |-> "endpoint", path |-> s \o "/USD"]
    ELSE IF s \in ObjectPrototypeKeys THEN [kind |-> "inherited", name |-> s]
    ELSE undefined

\* if (!endpoint): an object, a function and a non-empty string are truthy.
truthy(v) == v # undefined

\* What axios.get can come to for the endpoint: a body with a price only from
\* a URL that GoldAPI serves.
SettleKinds(s) ==
    IF metalsGet(s).kind = "endpoint" THEN {"ok", "error"} ELSE {"error"}

NoRow == [none |-> TRUE]

\* A call of fetchMetalPrice that is not running.
IdleCall == [pc |-> "idle", attempt |-> 0, due |-> 0]

\* The refresh ticks of src/index.js overlap: a tick runs in one of two slots.
Slots == {0, 1}
TickCallIds == Slots \X metals
IdleTask == [pc |-> "idle", attempt |-> 0, due |-> 0, tick |-> 0, price |-> 0]
NoIxEv == [type |-> "none"]
IdleReq == [pc |-> "idle", key |-> <<>>, sym |-> "", attempt |-> 0, due |-> 0,
            row |-> NoRow, started |-> 0, answered |-> FALSE]

NoFetch == [pc |-> "none"]

\* Each specification holds the other revision's variables still.
xQuiet ==
    /\ pricesTable = <<>>
    /\ fetch = NoFetch

NoSigReq == [pc |-> "idle"]

sgQuiet ==
    /\ signals = 0
    /\ sigGet = NoSigReq
    /\ sigPost = NoSigReq
    /\ completed = <<>>
    /\ acked = 0
    /\ sigEv = NoIxEv

cbQuiet ==
    /\ circuitBreakerState = "CLOSED"
    /\ failureCount = 0
    /\ lastFailureTime = 0
    /\ cbCalls = <<>>
    /\ cbPrices = <<>>
    /\ cbNextTick = 0
    /\ cbTickNo = 0
    /\ cbFetches = 0
    /\ cbEv = <<>>
    /\ trialCalls = {}
    /\ failedInARow = 0

ixQuiet ==
    /\ prices = [s \in metals |-> NoRow]
    /\ calls = [c \in TickCallIds |-> IdleTask]
    /\ batch = [k \in Slots |-> "none"]
    /\ nextTick = 0
    /\ tickNo = 0
    /\ cache = <<>>
    /\ faults = 0
    /\ req = IdleReq
    /\ requests = 0
    /\ tzOffset = 0
    /\ lastCached = NoRow
    /\ ev = NoIxEv

(***************************************************************************)
(* src/unnamed/part_001: the circuit breaker.                              *)
(***************************************************************************)
FAILURE_THRESHOLD == 3
RECOVERY_TIMEOUT == 30000
cbTimeout == 6000            \* axiosConfig.timeout
cbRetries == 1               \* fetchMetalPrice(metalSymbol, retries = 1)
cbInterval == 12000          \* setInterval(updateAllMetalPrices, 12 * 1000)
cbBackoffUnit == 500

cbBackoff(attempt) == cbBackoffUnit * (attempt + 1)

\* Kinds of answer of goldApi.get: a body with prices, a body with an error
\* field, a rejected promise (timeout, network error, status >= 500), or a
\* response with a status from 400 to 499 whose body has no error field
\* (validateStatus lets every status below 500 resolve).
ResponseKinds == {"ok", "body_error", "net_error", "client_error"}

\* The try block reaches its return statement.
returnsQuote(kind) == kind \in {"ok", "client_error"}

\* A call of fetchMetalPrice is named by its caller (the refresh tick or the
\* request handler) and its symbol.
CbCallIds == {"tick", "req"} \X metals

Breaker == [state |-> circuitBreakerState, count |-> failureCount, lft |-> lastFailureTime]

\* A breaker check that never lets a call through once the breaker is OPEN.
fetchEnterStaysOpen(br, t) ==
    IF br.state = "OPEN"
    THEN [br |-> br, admitted |-> FALSE]
    ELSE [br |-> br, admitted |-> TRUE]

\* A breaker check that notes the time of a refused call.
fetchEnterNotesRefusal(br, t) ==
    IF br.state = "OPEN"
    THEN IF t - br.lft > RECOVERY_TIMEOUT
         THEN [br |-> [br EXCEPT !.state = "HALF_OPEN"], admitted |-> TRUE]
         ELSE [br |-> [br EXCEPT !.lft = t], admitted |-> FALSE]
    ELSE [br |-> br, admitted |-> TRUE]

\* fetchMetalPrice, the breaker check on entry.
fetchEnter(br, t) ==
    IF br.state = "OPEN"
    THEN IF t - br.lft > RECOVERY_TIMEOUT
         THEN [br |-> [br EXCEPT !.state = "HALF_OPEN"], admitted |-> TRUE]
         ELSE [br |-> br, admitted |-> FALSE]
    ELSE [br |-> br, admitted |-> TRUE]

onResponseKeepsCount(br) ==
    IF br.state = "HALF_OPEN"
    THEN [br EXCEPT !.state = "CLOSED"]
    ELSE br

\* A response that clears the counter in every state of the breaker.
onResponseClearsCount(br) ==
    IF br.state = "HALF_OPEN"
    THEN [br EXCEPT !.state = "CLOSED", !.count = 0]
    ELSE [br EXCEPT !.count = 0]

\* fetchMetalPrice, a response has arrived (the promise of goldApi.get resolved).
onResponse(br) ==
    IF br.state = "HALF_OPEN"
    THEN [br EXCEPT !.state = "CLOSED", !.count = 0]
    ELSE br

onCatchOpensLate(br, t) ==
    LET c == br.count + 1 IN
    IF c > FAILURE_THRESHOLD
    THEN [state |-> "OPEN", count |-> c, lft |-> t]
    ELSE [br EXCEPT !.count = c]

\* A catch block that counts the failures of its own call only.
onCatchOwnCount(br, t) ==
    [br EXCEPT !.count = 1]

\* fetchMetalPrice, the catch block's bookkeeping.
onCatch(br, t) ==
    LET c == br.count + 1 IN
    IF c >= FAILURE_THRESHOLD
    THEN [state |-> "OPEN", count |-> c, lft |-> t]
    ELSE [br EXCEPT !.count = c]

\* History: a call has completed with outcome o ("S" a quote, "F" an error).
Logged(n, o) ==
    IF o = "S" THEN 0 ELSE IF n < FAILURE_THRESHOLD THEN n + 1 ELSE n

\* History: the calls admitted in the current HALF_OPEN episode.
Trials(old, br, admittedIds) ==
    IF br.state = "HALF_OPEN" THEN old \cup admittedIds ELSE {}

\* History: the last segment's kind of event, the answer it handled, the
\* breaker state before it, the counter on entry of the catch block (-1: none),
\* whether it started a network request, whether its call was a trial call.
NoEv == [type |-> "none", kind |-> "none", pre |-> "CLOSED", catchCount |-> -1,
         net |-> FALSE, trial |-> FALSE]

\* updateAllMetalPrices: Object.keys(metals).map(async ...) runs every
\* fetchMetalPrice up to its first await, one symbol after the other.
RECURSIVE cbStartAll(_, _, _)
cbStartAll(i, br, adm) ==
    IF i > Len(metalKeys)
    THEN [br |-> br, adm |-> adm]
    ELSE LET r == fetchEnter(br, now) IN
         cbStartAll(i + 1, r.br, IF r.admitted THEN adm \cup {metalKeys[i]} ELSE adm)

cbSetBreaker(br) ==
    /\ circuitBreakerState' = br.state
    /\ failureCount' = br.count
    /\ lastFailureTime' = br.lft

InitCB ==
    /\ now = 0
    /\ xQuiet
    /\ circuitBreakerState = "CLOSED"
    /\ failureCount = 0
    /\ lastFailureTime = 0
    \* the module body has called updateAllMetalPrices() once
    /\ cbCalls = [c \in CbCallIds |->
                    IF c[1] = "tick"
                    THEN [pc |-> "inflight", attempt |-> 0, due |-> cbTimeout]
                    ELSE IdleCall]
    /\ cbPrices = [s \in metals |-> NoRow]
    /\ cbNextTick = cbInterval
    /\ cbTickNo = 1
    /\ cbFetches = 0
    /\ cbEv = [NoEv EXCEPT !.net = TRUE]
    /\ trialCalls = {}
    /\ failedInARow = 0
    /\ ixQuiet
    /\ sgQuiet

\* setInterval fires: updateAllMetalPrices up to its await of Promise.allSettled.
cbUpdateAllMetalPrices ==
    /\ now >= cbNextTick
    /\ \A s \in metals : cbCalls[<<"tick", s>>].pc = "idle"
    /\ LET r == cbStartAll(1, Breaker, {})
           ids == {"tick"} \X r.adm
       IN /\ cbSetBreaker(r.br)
          /\ cbCalls' = [c \in CbCallIds |->
                           IF c \in ids
                           THEN [pc |-> "inflight", attempt |-> 0, due |-> now + cbTimeout]
                           ELSE cbCalls[c]]
          /\ trialCalls' = Trials(trialCalls, r.br, ids)
          /\ cbEv' = [NoEv EXCEPT !.type = "tick", !.pre = circuitBreakerState,
                                  !.net = (ids # {})]
    /\ cbNextTick' = cbNextTick + cbInterval
    /\ cbTickNo' = cbTickNo + 1
    /\ UNCHANGED <<now, cbPrices, cbFetches, failedInARow, ixVars, sgVars, xVars>>

\* GET /api/metals/:symbol/price, from the row lookup on.
cbGetMetalPrice(s) ==
    /\ \A t \in metals : cbCalls[<<"req", t>>].pc = "idle"   \* one handler at a time
    /\ IF cbPrices[s] # NoRow
       THEN /\ cbEv' = [NoEv EXCEPT !.type = "request", !.pre = circuitBreakerState]
            /\ UNCHANGED <<circuitBreakerState, failureCount, lastFailureTime,
                           cbCalls, cbFetches, trialCalls>>
       ELSE LET r == fetchEnter(Breaker, now)
                id == <<"req", s>>
            IN /\ cbFetches < MaxFetchesCB
               /\ cbFetches' = cbFetches + 1
               /\ cbSetBreaker(r.br)
               /\ cbCalls' = IF r.admitted
                             THEN [cbCalls EXCEPT ![id] = [pc |-> "inflight", attempt |-> 0,
                                                           due |-> now + cbTimeout]]
                             ELSE cbCalls
               /\ trialCalls' = Trials(trialCalls, r.br, IF r.admitted THEN {id} ELSE {})
               /\ cbEv' = [NoEv EXCEPT !.type = "request", !.pre = circuitBreakerState,
                                       !.net = r.admitted]
    /\ UNCHANGED <<now, cbPrices, cbNextTick, cbTickNo, failedInARow, ixVars, sgVars, xVars>>

\* fetchMetalPrice resumes after await goldApi.get(...), in the try or the catch.
cbResponse(c, kind) ==
    /\ cbCalls[c].pc = "inflight"
    /\ LET call == cbCalls[c]
           br1 == IF kind = "net_error" THEN Breaker ELSE onResponse(Breaker)
           br2 == IF returnsQuote(kind) THEN br1 ELSE onCatch(br1, now)
           last == call.attempt = cbRetries
           e == [NoEv EXCEPT !.type = "response", !.kind = kind,
                             !.pre = circuitBreakerState, !.trial = (c \in trialCalls),
                             !.catchCount = IF returnsQuote(kind) THEN -1 ELSE br1.count]
       IN /\ cbSetBreaker(br2)
          /\ trialCalls' = Trials(trialCalls, br2, {})
          /\ IF returnsQuote(kind)
             THEN \* return the quote: the tick goes on to the INSERT, the handler answers
                  /\ cbCalls' = [cbCalls EXCEPT ![c] =
                                    IF c[1] = "req" THEN IdleCall
                                    ELSE [pc |-> "writing", attempt |-> 0, due |-> 0]]
                  /\ failedInARow' = Logged(failedInARow, "S")
                  /\ cbEv' = e
             ELSE IF last
             THEN \* throw error: the tick logs it, the handler answers 500
                  /\ cbCalls' = [cbCalls EXCEPT ![c] = IdleCall]
                  /\ failedInARow' = Logged(failedInARow, "F")
                  /\ cbEv' = e
             ELSE \* await the backoff timer
                  /\ cbCalls' = [cbCalls EXCEPT ![c] =
                                    [pc |-> "backoff", attempt |-> call.attempt,
                                     due |-> now + cbBackoff(call.attempt)]]
                  /\ failedInARow' = failedInARow
                  /\ cbEv' = e
    /\ UNCHANGED <<now, cbPrices, cbNextTick, cbTickNo, cbFetches, ixVars, sgVars, xVars>>

\* The backoff timer fires: the for loop issues the next goldApi.get.
cbRetry(c) ==
    /\ cbCalls[c].pc = "backoff"
    /\ now >= cbCalls[c].due
    /\ cbCalls' = [cbCalls EXCEPT ![c] = [pc |-> "inflight", attempt |-> cbCalls[c].attempt + 1,
                                          due |-> now + cbTimeout]]
    /\ cbEv' = [NoEv EXCEPT !.type = "retry", !.pre = circuitBreakerState, !.net = TRUE]
    /\ UNCHANGED <<now, circuitBreakerState, failureCount, lastFailureTime, cbPrices,
                   cbNextTick, cbTickNo, cbFetches, trialCalls, failedInARow, ixVars, sgVars, xVars>>

\* The tick's INSERT OR REPLACE completes (executeQuery resolves or rejects).
cbWriteDone(c, ok) ==
    /\ cbCalls[c].pc = "writing"
    /\ cbCalls' = [cbCalls EXCEPT ![c] = IdleCall]
    /\ cbPrices' = IF ok THEN [cbPrices EXCEPT ![c[2]] = [tick |-> cbTickNo - 1]] ELSE cbPrices
    /\ cbEv' = NoEv
    /\ UNCHANGED <<now, circuitBreakerState, failureCount, lastFailureTime,
                   cbNextTick, cbTickNo, cbFetches, trialCalls, failedInARow, ixVars, sgVars, xVars>>

\* A timer, a timeout or a database write that is due runs before the clock
\* is observed again.
cbPending ==
    \/ now >= cbNextTick
    \/ \E c \in CbCallIds :
          \/ cbCalls[c].pc = "backoff" /\ now >= cbCalls[c].due
          \/ cbCalls[c].pc = "inflight" /\ now + TimeStepCB >= cbCalls[c].due
          \/ cbCalls[c].pc = "writing"

\* fetchMetalPrice is called with a symbol that metals does not have: it
\* throws before it looks at the breaker.
cbFetchUnsupported(s) ==
    /\ ~truthy(metalsGet(s))
    /\ cbFetches < MaxFetchesCB
    /\ cbFetches' = cbFetches + 1
    /\ cbEv' = [NoEv EXCEPT !.type = "unsupported", !.pre = circuitBreakerState]
    /\ UNCHANGED <<now, circuitBreakerState, failureCount, lastFailureTime, cbCalls, cbPrices,
                   cbNextTick, cbTickNo, trialCalls, failedInARow, ixVars, sgVars, xVars>>

\* Time passes.
cbAdvanceTime ==
    /\ ~cbPending
    /\ now + TimeStepCB <= MaxTimeCB
    /\ now' = now + TimeStepCB
    /\ cbEv' = NoEv
    /\ UNCHANGED <<circuitBreakerState, failureCount, lastFailureTime, cbCalls, cbPrices,
                   cbNextTick, cbTickNo, cbFetches, trialCalls, failedInARow, ixVars, sgVars, xVars>>

NextCB ==
    \/ cbUpdateAllMetalPrices
    \/ \E s \in metals : cbGetMetalPrice(s)
    \/ cbFetchUnsupported("XXX")
    \/ \E c \in CbCallIds, kind \in ResponseKinds : cbResponse(c, kind)
    \/ \E c \in CbCallIds : cbRetry(c)
    \/ \E c \in CbCallIds, ok \in BOOLEAN : cbWriteDone(c, ok)
    \/ cbAdvanceTime

SpecCB == InitCB /\ [][NextCB]_vars

(***************************************************************************)
(* src/unnamed/part_001: recovery.  Requests fail or succeed until, at     *)
(* some moment up to FailUntil, the source and the database become         *)
(* healthy: from then on every request is answered with a quote and every  *)
(* INSERT succeeds.  The clock runs on long enough for the recovery        *)
(* timeout and the ticks that follow it.                                   *)
(***************************************************************************)
FailUntil == 12000

RecoverHorizon == FailUntil + RECOVERY_TIMEOUT + 2 * cbInterval

healthy == fetch # NoFetch

\* From now on every goldApi.get resolves with a quote.
sourceRecovers ==
    /\ ~healthy
    /\ fetch' = [pc |-> "healthy", tick |-> cbTickNo, since |-> now]
    /\ UNCHANGED <<now, cbVars, sgVars, ixVars, pricesTable>>

cbResponseUnder(c, kind) ==
    /\ healthy => kind = "ok"
    /\ cbResponse(c, kind)

cbWriteUnder(c, ok) ==
    /\ healthy => ok
    /\ cbWriteDone(c, ok)

cbAdvanceTimeRecover ==
    /\ ~cbPending
    /\ now + TimeStepCB <= (IF healthy THEN RecoverHorizon ELSE FailUntil)
    /\ now' = now + TimeStepCB
    /\ cbEv' = NoEv
    /\ UNCHANGED <<circuitBreakerState, failureCount, lastFailureTime, cbCalls, cbPrices,
                   cbNextTick, cbTickNo, cbFetches, trialCalls, failedInARow, ixVars, sgVars, xVars>>

NextRecover ==
    \/ sourceRecovers
    \/ cbUpdateAllMetalPrices
    \/ \E s \in metals : cbGetMetalPrice(s)
    \/ \E c \in CbCallIds, kind \in ResponseKinds : cbResponseUnder(c, kind)
    \/ \E c \in CbCallIds : cbRetry(c)
    \/ \E c \in CbCallIds, ok \in BOOLEAN : cbWriteUnder(c, ok)
    \/ cbAdvanceTimeRecover

\* The timers fire, the requests are answered, the statements complete and
\* time passes.
FairSpecRecover ==
    /\ InitCB /\ [][NextRecover]_vars
    /\ WF_vars(cbUpdateAllMetalPrices)
    /\ WF_vars(\E c \in CbCallIds, kind \in ResponseKinds : cbResponseUnder(c, kind))
    /\ WF_vars(\E c \in CbCallIds : cbRetry(c))
    /\ WF_vars(\E c \in CbCallIds, ok \in BOOLEAN : cbWriteUnder(c, ok))
    /\ WF_vars(cbAdvanceTimeRecover)

(***************************************************************************)
(* src/index.js: the refresh tick and the prices table.                    *)
(***************************************************************************)
axiosTimeout == 10000        \* axiosConfig.timeout
retries == 2                 \* fetchMetalPrice(metalSymbol, retries = 2)
tickInterval == 15000        \* setInterval(updateAllMetalPrices, 15 * 1000)
backoffUnit == 1000

\* A retry without a delay.
noBackoff(attempt) == 0

backoff(attempt) == backoffUnit * (attempt + 1)

\* The mid prices the source may quote, in cents.
SourcePrices == {200000, 200002}

\* Kinds of answer of axios.get: a body with prices, or anything that makes
\* fetchMetalPrice throw (timeout, network error, status >= 400, error body).
FetchKinds == {"ok", "error"}

\* The promises of one tick's per-symbol tasks that have settled.
Settled == {"resolved", "null", "rejected"}

\* await Promise.all(...) outside the try block: the first rejection is raised.
batchOutcomeFailFast(tasks) ==
    IF \E s \in metals : tasks[s] = "rejected" THEN "raised"
    ELSE IF \A s \in metals : tasks[s] \in Settled THEN "completed"
    ELSE "pending"

\* updateAllMetalPrices, await Promise.allSettled(updatePromises) in the try block.
batchOutcome(tasks) ==
    IF \A s \in metals : tasks[s] \in Settled THEN "completed" ELSE "pending"

\* datetime('now'): the UTC time to the second, as text without a zone.
datetimeNow(t) == (t \div 1000) * 1000

\* new Date(row.last_updated).getTime(): text without a zone is read as local time.
parseLocal(text, tz) == text - tz

\* INSERT OR REPLACE INTO prices ... WHERE nothing: the row of the symbol is replaced.
insertOrReplace(table, s, row) == [table EXCEPT ![s] = row]

\* key.includes('/api/prices'): a key is the sequence of the pieces of the
\* string that getCacheKey builds, a path being cut before each slash.
includesApiPrices(key) ==
    \E i \in 1..(Len(key) - 1) : key[i] = "/api" /\ key[i + 1] = "/prices"

\* A tick that leaves the cache as it is.
keepAllKeys(c) == c

\* updateAllMetalPrices, the loop that deletes the price listings from the cache.
deletePriceKeys(c) == SelectSeq(c, LAMBDA e : ~includesApiPrices(e.key))

\* SQLite is at work on a statement: it completes before the event loop
\* handles the next timer or response.
dbBusy == \E c \in TickCallIds : calls[c].pc = "writing"

tasksOf(k) == [s \in metals |-> calls[<<k, s>>].pc]

Init ==
    /\ now = 0
    /\ xQuiet
    /\ prices = [s \in metals |-> NoRow]
    \* the module body has called updateAllMetalPrices() once
    /\ calls = [c \in TickCallIds |->
                  IF c[1] = 0
                  THEN [pc |-> "inflight", attempt |-> 0, due |-> axiosTimeout,
                        tick |-> 0, price |-> 0]
                  ELSE IdleTask]
    /\ batch = [k \in Slots |-> IF k = 0 THEN "running" ELSE "none"]
    /\ nextTick = tickInterval
    /\ tickNo = 1
    /\ cache = <<>>
    /\ faults = 0
    /\ req = IdleReq
    /\ requests = 0
    /\ tzOffset = 0
    /\ lastCached = NoRow
    /\ ev = NoIxEv
    /\ cbQuiet
    /\ sgQuiet

\* setInterval fires: updateAllMetalPrices up to its await of Promise.allSettled.
updateAllMetalPrices ==
    LET k == tickNo % 2 IN
    /\ ~dbBusy
    /\ now >= nextTick
    /\ batch[k] # "running"
    /\ calls' = [c \in TickCallIds |->
                   IF c[1] = k
                   THEN [pc |-> "inflight", attempt |-> 0, due |-> now + axiosTimeout,
                         tick |-> tickNo, price |-> 0]
                   ELSE calls[c]]
    /\ batch' = [batch EXCEPT ![k] = "running"]
    /\ nextTick' = nextTick + tickInterval
    /\ tickNo' = tickNo + 1
    /\ ev' = NoIxEv
    /\ UNCHANGED <<now, prices, cache, faults, rdVars, cbVars, sgVars, xVars>>

\* A task that hands a row to db.run whether its fetch returned a quote or not.
taskWritesRegardless(call, kind, p, t) ==
    IF kind = "ok" \/ call.attempt = retries
    THEN [call EXCEPT !.pc = "writing", !.due = 0, !.price = IF kind = "ok" THEN p ELSE 0]
    ELSE [call EXCEPT !.pc = "backoff", !.due = t + backoff(call.attempt)]

\* The task of one symbol after an answer of axios.get: with a quote it goes on
\* to db.run; fetchMetalPrice throwing after the last attempt lands in the
\* task's catch, which returns null; otherwise the backoff timer is set.
taskAfterAnswer(call, kind, p, t) ==
    IF kind = "ok"
    THEN [call EXCEPT !.pc = "writing", !.due = 0, !.price = p]
    ELSE IF call.attempt = retries
    THEN [call EXCEPT !.pc = "null", !.due = 0]
    ELSE [call EXCEPT !.pc = "backoff", !.due = t + backoff(call.attempt)]

\* fetchMetalPrice resumes after await axios.get(...), in the try or the catch;
\* with a quote the task goes on to db.run.
fetchResponse(c, kind, p) ==
    /\ calls[c].pc = "inflight"
    /\ ~dbBusy
    /\ kind = "error" => faults < MaxFaults
    /\ faults' = IF kind = "error" THEN faults + 1 ELSE faults
    /\ calls' = [calls EXCEPT ![c] = taskAfterAnswer(calls[c], kind, p, now)]
    /\ ev' = NoIxEv
    /\ UNCHANGED <<now, prices, batch, nextTick, tickNo, cache, rdVars, cbVars, sgVars, xVars>>

\* The backoff timer fires: the for loop issues the next axios.get.
fetchRetry(c) ==
    /\ calls[c].pc = "backoff"
    /\ ~dbBusy
    /\ now >= calls[c].due
    /\ calls' = [calls EXCEPT ![c] = [calls[c] EXCEPT !.pc = "inflight",
                                                      !.attempt = calls[c].attempt + 1,
                                                      !.due = now + axiosTimeout]]
    /\ ev' = NoIxEv
    /\ UNCHANGED <<now, prices, batch, nextTick, tickNo, cache, faults, rdVars, cbVars, sgVars, xVars>>

\* The callback of db.run: the INSERT OR REPLACE was applied, or it failed.
writeDone(c, ok) ==
    /\ calls[c].pc = "writing"
    /\ ~ok => faults < MaxFaults
    /\ faults' = IF ok THEN faults ELSE faults + 1
    /\ LET s == c[2]
           row == [price |-> calls[c].price, last_updated |-> datetimeNow(now),
                   tick |-> calls[c].tick]
       IN /\ prices' = IF ok THEN insertOrReplace(prices, s, row) ELSE prices
          /\ ev' = [type |-> "write", sym |-> s, ok |-> ok, prior |-> prices[s], row |-> row]
    /\ calls' = [calls EXCEPT ![c] = [calls[c] EXCEPT !.pc = IF ok THEN "resolved" ELSE "rejected"]]
    /\ UNCHANGED <<now, batch, nextTick, tickNo, cache, rdVars, cbVars, sgVars, xVars>>

\* updateAllMetalPrices resumes after its await and invalidates the price listings.
batchSettle(k) ==
    /\ batch[k] = "running"
    /\ ~dbBusy
    /\ batchOutcome(tasksOf(k)) # "pending"
    /\ batch' = [batch EXCEPT ![k] = batchOutcome(tasksOf(k))]
    /\ cache' = IF batchOutcome(tasksOf(k)) = "completed" THEN deletePriceKeys(cache) ELSE cache
    /\ ev' = [type |-> "settle", slot |-> k, tasks |-> tasksOf(k),
              tick |-> calls[<<k, metalKeys[1]>>].tick]
    /\ calls' = [c \in TickCallIds |-> IF c[1] = k THEN IdleTask ELSE calls[c]]
    /\ UNCHANGED <<now, prices, nextTick, tickNo, faults, rdVars, cbVars, sgVars, xVars>>

\* A timer, a timeout, a database write or a continuation that is due runs
\* before the clock is observed again.
pending ==
    \/ now >= nextTick
    \/ \E c \in TickCallIds :
          \/ calls[c].pc = "backoff" /\ now >= calls[c].due
          \/ calls[c].pc = "inflight" /\ now + TimeStep >= calls[c].due
          \/ calls[c].pc = "writing"
    \/ \E k \in Slots : batch[k] = "running" /\ batchOutcome(tasksOf(k)) # "pending"

\* Time passes.
advanceTime ==
    /\ ~pending
    /\ now + TimeStep <= MaxTime
    /\ now' = now + TimeStep
    /\ ev' = NoIxEv
    /\ UNCHANGED <<prices, calls, batch, nextTick, tickNo, cache, faults, rdVars, cbVars, sgVars, xVars>>

Next ==
    \/ updateAllMetalPrices
    \/ \E c \in TickCallIds, kind \in FetchKinds, p \in SourcePrices : fetchResponse(c, kind, p)
    \/ \E c \in TickCallIds : fetchRetry(c)
    \/ \E c \in TickCallIds, ok \in BOOLEAN : writeDone(c, ok)
    \/ \E k \in Slots : batchSettle(k)
    \/ advanceTime

Spec == Init /\ [][Next]_vars

(***************************************************************************)
(* src/index.js: the response cache and GET /api/metals/:symbol/price.     *)
(* In SpecRead a refresh tick is seen through its effect on the prices     *)
(* table and the cache.                                                    *)
(***************************************************************************)
CACHE_DURATION == [prices |-> 10000, signals |-> 5000, statistics |-> 30000,
                   history |-> 60000]
cacheLimit == 100            \* if (cache.size > 100)
freshWindow == 30000         \* a row younger than this is served as it is
requestTimeout == 30000      \* req.setTimeout(30000, ...)

\* The :symbol parameters tried: the tracked symbols are handled alike, so
\* requests ask for the first of them or for a name that is no property of
\* metals.  (A name that metals inherits passes the check of the handler as
\* it passes the check of fetchMetalPrice; SpecFetch follows such a call.)
Symbols == {metalKeys[1], "XXX"}

\* JSON.stringify(req.query) of a request without query parameters, and of
\* one with the parameter ref=/api/prices.
NoQuery == <<"{}">>
RefQuery == <<"{\"ref\":\"", "/api", "/prices", "\"}">>
Queries == {NoQuery, RefQuery}

\* getCacheKey: `${req.method}:${req.path}:${JSON.stringify(req.query)}`.
getCacheKey(r) == <<r.method, ":">> \o r.path \o <<":">> \o r.query

priceRequest(s, q) == [method |-> "GET", path |-> <<"/api", "/metals", "/" \o s, "/price">>,
                       query |-> q]

listRequest(q) == [method |-> "GET", path |-> <<"/api", "/prices">>, query |-> q]

null == [null |-> TRUE]

\* cache.get(key): the entry of the key, or null.
cacheGet(c, key) ==
    IF \E i \in 1..Len(c) : c[i].key = key
    THEN c[CHOOSE i \in 1..Len(c) : c[i].key = key]
    ELSE null

\* A getFromCache that returns the data of any entry of the key, whatever its age.
getFromCacheNoTtl(c, key, t) ==
    LET cached == cacheGet(c, key) IN
    IF cached # null THEN cached.data ELSE null

\* A getFromCache that still returns an entry at the moment its duration has passed.
getFromCacheInclusive(c, key, t) ==
    LET cached == cacheGet(c, key) IN
    IF cached # null /\ t - cached.timestamp <= cached.duration THEN cached.data ELSE null

\* getFromCache
getFromCache(c, key, t) ==
    LET cached == cacheGet(c, key) IN
    IF cached # null /\ t - cached.timestamp < cached.duration THEN cached.data ELSE null

\* cache.set(key, entry): a Map keeps the place of a key it already holds.
cacheSet(c, entry) ==
    IF \E i \in 1..Len(c) : c[i].key = entry.key
    THEN [i \in 1..Len(c) |-> IF c[i].key = entry.key THEN entry ELSE c[i]]
    ELSE Append(c, entry)

\* A setCache without the size check.
setCacheNoEviction(c, key, data, duration, t) ==
    cacheSet(c, [key |-> key, data |-> data, timestamp |-> t, duration |-> duration])

\* setCache
setCache(c, key, data, duration, t) ==
    cacheSet(IF Len(c) > cacheLimit THEN Tail(c) ELSE c,
             [key |-> key, data |-> data, timestamp |-> t, duration |-> duration])

\* The body of a successful answer of the handler.
payload(source, s, price, t) ==
    [success |-> TRUE, symbol |-> s, price |-> price, timestamp |-> t, source |-> source]

\* The process has not been terminated by an unhandled rejection.
alive == req.pc # "crashed"

\* A res.json that stores its argument whatever the status.
storesAnyStatus(status) == TRUE

\* The res.json of cacheMiddleware: if (res.statusCode === 200).
storesResponse(status) == status = 200

\* res.status(status).json(body) through the res.json that cacheMiddleware
\* installed; once the request has been answered res.json throws instead.
send(status, body, via) ==
    /\ ~req.answered
    /\ ev' = [type |-> "handled", status |-> status, body |-> body, via |-> via]
    /\ cache' = IF storesResponse(status)
                THEN setCache(cache, req.key, body, CACHE_DURATION.prices, now)
                ELSE cache
    /\ lastCached' = IF storesResponse(status)
                     THEN [key |-> req.key, data |-> body, timestamp |-> now,
                           duration |-> CACHE_DURATION.prices]
                     ELSE lastCached
    /\ req' = IdleReq

\* An error thrown inside the async callback of db.get is an unhandled
\* rejection: depending on the runtime the process is terminated or goes on,
\* and the request is left without an answer.
unhandled(via, crash) ==
    /\ ev' = [type |-> "handled", status |-> 0, body |-> null, via |-> via]
    /\ cache' = cache
    /\ lastCached' = lastCached
    /\ req' = IF crash THEN [req EXCEPT !.pc = "crashed"]
              ELSE IF req.answered THEN IdleReq
              ELSE [req EXCEPT !.pc = "unanswered"]

sendOrThrow(status, body, via) ==
    \/ send(status, body, via)
    \/ req.answered /\ \E crash \in BOOLEAN : unhandled("late", crash)

\* The zones the server may run in: UTC, one east and one west of it.
TimeZones == {0, 3600000, -3600000}

\* A row that an earlier run of the server left in gold_tracker.db.
OldRow == [price |-> 200000, last_updated |-> 0 - freshWindow, tick |-> -1]

InitRead ==
    /\ now = 0
    /\ xQuiet
    /\ prices \in [metals -> {NoRow, OldRow}]
    /\ calls = [c \in TickCallIds |-> IdleTask]
    /\ batch = [k \in Slots |-> "none"]
    \* the module body is about to call updateAllMetalPrices()
    /\ nextTick = 0
    /\ tickNo = 0
    /\ cache = <<>>
    /\ faults = 0
    /\ req = IdleReq
    /\ requests = 0
    /\ tzOffset \in TimeZones
    /\ lastCached = NoRow
    /\ ev = NoIxEv
    /\ cbQuiet
    /\ sgQuiet

\* A request arrives: cacheMiddleware, then the handler up to db.get.
getMetalPrice(s, q) ==
    /\ alive
    /\ req.pc = "idle"
    /\ requests < MaxRequests
    /\ LET key == getCacheKey(priceRequest(s, q))
           cached == getFromCache(cache, key, now)
       IN IF cached # null
          THEN /\ ev' = [type |-> "handled", status |-> 200, body |-> cached,
                         via |-> "cache", key |-> key]
               /\ UNCHANGED <<cache, req>>
          ELSE IF ~truthy(metalsGet(s))
          THEN /\ ev' = [type |-> "handled", status |-> 400,
                         body |-> [error |-> "Invalid symbol"], via |-> "invalid"]
               /\ UNCHANGED <<cache, req>>
          ELSE /\ req' = [IdleReq EXCEPT !.pc = "lookup", !.key = key, !.sym = s,
                                         !.started = now]
               /\ ev' = [type |-> "miss", key |-> key]
               /\ UNCHANGED cache
    /\ requests' = requests + 1
    /\ UNCHANGED <<now, prices, calls, batch, nextTick, tickNo, faults, tzOffset, lastCached, cbVars, sgVars, xVars>>

\* The callback of db.get, up to its answer or its await of fetchMetalPrice.
lookupDone(err) ==
    /\ alive
    /\ req.pc = "lookup"
    /\ LET row == IF req.sym \in metals THEN prices[req.sym] ELSE NoRow IN
       IF err
       THEN sendOrThrow(500, [error |-> "Database error"], "db_error")
       ELSE IF row # NoRow /\ now - parseLocal(row.last_updated, tzOffset) < freshWindow
       THEN sendOrThrow(200, payload("cached", req.sym, row.price, now), "row")
       ELSE /\ req' = [req EXCEPT !.pc = "inflight", !.row = row, !.due = now + axiosTimeout]
            /\ ev' = NoIxEv
            /\ UNCHANGED <<cache, lastCached>>
    /\ UNCHANGED <<now, prices, calls, batch, nextTick, tickNo, faults, requests, tzOffset, cbVars, sgVars, xVars>>

\* fetchMetalPrice resumes after await axios.get(...); when it returns or
\* throws the callback of db.get goes on to its answer.
reqFetchResponse(kind, p) ==
    /\ alive
    /\ req.pc = "inflight"
    /\ kind \in SettleKinds(req.sym)
    /\ IF kind = "ok"
       THEN sendOrThrow(200, payload("live", req.sym, p, now), "live")
       ELSE IF req.attempt < retries
       THEN /\ req' = [req EXCEPT !.pc = "backoff", !.due = now + backoff(req.attempt)]
            /\ ev' = NoIxEv
            /\ UNCHANGED <<cache, lastCached>>
       ELSE IF req.row # NoRow
       THEN sendOrThrow(200, payload("fallback", req.sym, req.row.price, now),
                        "fallback")
       ELSE \E crash \in BOOLEAN : unhandled("throw", crash)
    /\ UNCHANGED <<now, prices, calls, batch, nextTick, tickNo, faults, requests, tzOffset, cbVars, sgVars, xVars>>

\* GET /api/prices arrives: cacheMiddleware, then the handler up to db.all.
getPrices(q) ==
    /\ alive
    /\ req.pc = "idle"
    /\ requests < MaxRequests
    /\ LET key == getCacheKey(listRequest(q))
           cached == getFromCache(cache, key, now)
       IN IF cached # null
          THEN /\ ev' = [type |-> "handled", status |-> 200, body |-> cached,
                         via |-> "cache", key |-> key]
               /\ UNCHANGED req
          ELSE /\ req' = [IdleReq EXCEPT !.pc = "listing", !.key = key, !.started = now]
               /\ ev' = [type |-> "miss", key |-> key]
    /\ requests' = requests + 1
    /\ UNCHANGED <<now, prices, calls, batch, nextTick, tickNo, cache, faults, tzOffset,
                   lastCached, cbVars, sgVars, xVars>>

\* The body that GET /api/prices builds from the rows of the table.
listing(table, t) ==
    [success |-> TRUE, timestamp |-> t, source |-> "GoldAPI.io",
     prices |-> [s \in {m \in metals : table[m] # NoRow} |->
                   [price |-> table[s].price, last_updated |-> table[s].last_updated]]]

\* The callback of db.all.
listingDone(err) ==
    /\ alive
    /\ req.pc = "listing"
    /\ IF err
       THEN sendOrThrow(500, [error |-> "Database error"], "db_error")
       ELSE sendOrThrow(200, listing(prices, now), "listing")
    /\ UNCHANGED <<now, prices, calls, batch, nextTick, tickNo, faults, requests, tzOffset, cbVars, sgVars, xVars>>

\* The backoff timer fires: the for loop issues the next axios.get.
reqFetchRetry ==
    /\ alive
    /\ req.pc = "backoff"
    /\ now >= req.due
    /\ req' = [req EXCEPT !.pc = "inflight", !.attempt = req.attempt + 1,
                          !.due = now + axiosTimeout]
    /\ ev' = NoIxEv
    /\ UNCHANGED <<now, prices, calls, batch, nextTick, tickNo, cache, faults, requests, tzOffset, lastCached, cbVars, sgVars, xVars>>

\* The timeout middleware: the request has had no answer for 30 s.
onRequestTimeout ==
    /\ alive
    /\ req.pc # "idle"
    /\ ~req.answered
    /\ now - req.started >= requestTimeout
    /\ ev' = [type |-> "handled", status |-> 408, body |-> [error |-> "Request timeout"],
              via |-> "timeout"]
    /\ req' = IF req.pc = "unanswered" THEN IdleReq ELSE [req EXCEPT !.answered = TRUE]
    /\ UNCHANGED <<now, prices, calls, batch, nextTick, tickNo, cache, faults, requests, tzOffset, lastCached, cbVars, sgVars, xVars>>

\* A refresh tick, seen from the read path: the rows of the symbols whose
\* fetch and INSERT OR REPLACE succeed are replaced and the price listings
\* leave the cache.
tickRefresh(S, p) ==
    /\ alive
    /\ now >= nextTick
    /\ prices' = [s \in metals |->
                    IF s \in S
                    THEN [price |-> p, last_updated |-> datetimeNow(now), tick |-> tickNo]
                    ELSE prices[s]]
    /\ cache' = deletePriceKeys(cache)
    /\ nextTick' = nextTick + tickInterval
    /\ tickNo' = tickNo + 1
    /\ ev' = NoIxEv
    /\ UNCHANGED <<now, calls, batch, faults, rdVars, cbVars, sgVars, xVars>>

pendingRead ==
    \/ now >= nextTick
    \/ req.pc \in {"lookup", "listing"}
    \/ req.pc = "backoff" /\ now >= req.due
    \/ req.pc = "inflight" /\ now + TimeStepRead >= req.due
    \/ req.pc # "idle" /\ ~req.answered /\ now - req.started >= requestTimeout

\* Time passes.
advanceTimeRead ==
    /\ alive
    /\ ~pendingRead
    /\ now + TimeStepRead <= MaxTimeRead
    /\ now' = now + TimeStepRead
    /\ ev' = NoIxEv
    /\ UNCHANGED <<prices, calls, batch, nextTick, tickNo, cache, faults, rdVars, cbVars, sgVars, xVars>>

NextRead ==
    \/ \E s \in Symbols, q \in Queries : getMetalPrice(s, q)
    \/ \E err \in BOOLEAN : lookupDone(err)
    \/ \E q \in Queries : getPrices(q)
    \/ \E err \in BOOLEAN : listingDone(err)
    \/ \E kind \in FetchKinds, p \in SourcePrices : reqFetchResponse(kind, p)
    \/ reqFetchRetry
    \/ onRequestTimeout
    \/ \E S \in SUBSET metals, p \in SourcePrices : tickRefresh(S, p)
    \/ advanceTimeRead

SpecRead == InitRead /\ [][NextRead]_vars

(***************************************************************************)
(* Properties of the circuit breaker (SpecCB).                             *)
(***************************************************************************)
FailedResponse == cbEv.type = "response" /\ ~returnsQuote(cbEv.kind)

\* C1: while the breaker is OPEN and the recovery timeout has not yet
\* elapsed since it was opened, no request to the price source is started.
C1_NoNetworkWhileOpen ==
    (cbEv.net /\ cbEv.pre = "OPEN") => now - lastFailureTime >= RECOVERY_TIMEOUT

\* C2: in one HALF_OPEN episode exactly one trial call is admitted to the
\* network; no other fetch is admitted before the trial call has completed.
C2_SingleTrialCall == Cardinality(trialCalls) <= 1

\* C3: from CLOSED the breaker becomes OPEN only when the three most recently
\* completed fetchMetalPrice calls all failed (a success restarts the count,
\* a call with its retries counts once).
C3_OpensAfterThreeFailedCalls ==
    (cbEv.type = "response" /\ cbEv.pre = "CLOSED" /\ circuitBreakerState = "OPEN")
        => failedInARow >= FAILURE_THRESHOLD

\* C4: every failure caught by fetchMetalPrice increments failureCount, and
\* whenever that brings the counter to FAILURE_THRESHOLD or more the breaker
\* is OPEN and lastFailureTime is the time of that failure.
C4_FailureCountsAndOpens ==
    FailedResponse =>
        /\ failureCount = cbEv.catchCount + 1
        /\ failureCount >= FAILURE_THRESHOLD =>
               (circuitBreakerState = "OPEN" /\ lastFailureTime = now)

C4_Witness == FailedResponse /\ failureCount = FAILURE_THRESHOLD /\ now > 0

\* C5: a failed trial call while the breaker is HALF_OPEN re-opens the breaker
\* and refreshes lastFailureTime, whatever the kind of failure.
C5_FailedTrialReopens ==
    (FailedResponse /\ cbEv.pre = "HALF_OPEN" /\ cbEv.trial)
        => (circuitBreakerState = "OPEN" /\ lastFailureTime = now)

\* C6: a successful call while the breaker is HALF_OPEN sets failureCount to 0
\* and the state to CLOSED.
C6_SuccessInHalfOpenCloses ==
    (cbEv.type = "response" /\ cbEv.kind = "ok" /\ cbEv.pre = "HALF_OPEN")
        => (failureCount = 0 /\ circuitBreakerState = "CLOSED")

C6_Witness == cbEv.type = "response" /\ cbEv.kind = "ok" /\ cbEv.pre = "HALF_OPEN"

(***************************************************************************)
(* Properties of the refresh tick (Spec).                                  *)
(***************************************************************************)
RowWritten == ev.type = "write" /\ ev.ok

Abs(x) == IF x < 0 THEN -x ELSE x

\* C7: refresh ticks never apply results out of order: a row written for a
\* symbol never replaces a row that a later tick has written for that symbol.
C7_NoOutOfOrderWrite ==
    (RowWritten /\ ev.prior # NoRow) => ev.row.tick >= ev.prior.tick

\* C8: the store writer is change-gated: a tick writes the row of a symbol
\* only if there is no prior row or the new mid price differs from the stored
\* one by more than 0.01 (one cent); identical source data is not written again.
C8_ChangeGatedWrite ==
    RowWritten => (ev.prior = NoRow \/ Abs(ev.row.price - ev.prior.price) > 1)

\* C9: a refresh tick isolates failures per symbol: every tick attempts every
\* tracked symbol, stores the quote of each symbol whose fetch and write
\* succeed, waits for every symbol whatever fails, and never raises.
C9_TickIsolatesFailures ==
    /\ \A k \in Slots : batch[k] # "raised"
    /\ \A c \in TickCallIds : batch[c[1]] = "running" => calls[c].pc # "idle"
    /\ ev.type = "settle" => \A s \in metals : ev.tasks[s] \in Settled
    /\ RowWritten => prices[ev.sym] = ev.row

C9_Witness ==
    /\ ev.type = "settle"
    /\ \E s \in metals : ev.tasks[s] \in {"null", "rejected"}
    /\ \E s \in metals : ev.tasks[s] = "resolved" /\ prices[s] # NoRow

(***************************************************************************)
(* Properties of the on-demand read path (SpecRead).                       *)
(***************************************************************************)
\* C10: when the live fetch of GET /api/metals/:symbol/price fails and the
\* symbol has no stored row, the request is answered with a 5xx status (it is
\* neither left unanswered nor answered with other data).
C10_FetchFailureWithoutRowIs5xx ==
    (ev.type = "handled" /\ ev.via = "throw") => ev.status \in 500..599

\* C11: when the live fetch fails and a row is stored for the symbol, the
\* answer carries exactly the stored values and is tagged as fallback.
C11_FallbackCarriesStoredRow ==
    (ev.type = "handled" /\ ev.via = "fallback") =>
        /\ ev.body.source = "fallback"
        /\ prices[ev.body.symbol] # NoRow
        /\ ev.body.price = prices[ev.body.symbol].price

\* C12: after a live fetch has succeeded on the on-demand read path, both the
\* cache entry of the request and the row of the symbol hold the fetched quote.
C12_LiveFetchRefreshesBothLayers ==
    (ev.type = "handled" /\ ev.via = "live") =>
        /\ \E q \in Queries :
              getFromCache(cache, getCacheKey(priceRequest(ev.body.symbol, q)), now) = ev.body
        /\ prices[ev.body.symbol] # NoRow
        /\ prices[ev.body.symbol].price = ev.body.price

(***************************************************************************)
(* The prices pricesTable row by row.  The database file outlives a deployment,  *)
(* so the statements of both revisions of updateAllMetalPrices run         *)
(* against one table; every revision of the schema declares metal unique   *)
(* (PRIMARY KEY in src/index.js, UNIQUE NOT NULL in src/unnamed/part_000). *)
(***************************************************************************)
MaxTimeTable == 30000
TimeStepTable == 15000
MaxWrites == 4

\* priceData.price of a body without a price field.
NoPrice == -1
TablePrices == SourcePrices \cup {NoPrice}

\* An INSERT that meets no constraint: it adds a row.
plainInsert(rows, s, p, t) ==
    Append(rows, [metal |-> s, price |-> p, last_updated |-> datetimeNow(t)])

\* price REAL NOT NULL: the statement is aborted and the table is as before.
notNullFails(p) == p = NoPrice

\* INSERT OR REPLACE INTO prices (...) VALUES (..., datetime('now')): the row
\* that holds the same metal is deleted, then the new row is inserted.
insertOrReplaceInto(rows, s, p, t) ==
    IF notNullFails(p) THEN rows
    ELSE Append(SelectSeq(rows, LAMBDA r : r.metal # s),
                [metal |-> s, price |-> p, last_updated |-> datetimeNow(t)])

\* INSERT INTO prices (...) VALUES (..., CURRENT_TIMESTAMP) ON CONFLICT(metal)
\* DO UPDATE SET ...: the row that holds the same metal is updated where it is.
insertOnConflictUpdate(rows, s, p, t) ==
    IF notNullFails(p) THEN rows
    ELSE IF \E i \in 1..Len(rows) : rows[i].metal = s
    THEN [i \in 1..Len(rows) |->
            IF rows[i].metal = s
            THEN [rows[i] EXCEPT !.price = p, !.last_updated = datetimeNow(t)]
            ELSE rows[i]]
    ELSE plainInsert(rows, s, p, t)

InitTable ==
    /\ now = 0
    /\ cbQuiet
    /\ sgQuiet
    /\ ixQuiet
    /\ pricesTable = <<>>
    /\ fetch = NoFetch

\* The db.run of updateAllMetalPrices in src/index.js, for symbol s.
runInsertOrReplace(s, p) ==
    /\ faults < MaxWrites
    /\ faults' = faults + 1
    /\ pricesTable' = insertOrReplaceInto(pricesTable, s, p, now)
    /\ ev' = [type |-> "sql", metal |-> s, before |-> pricesTable]
    /\ UNCHANGED <<now, prices, calls, batch, nextTick, tickNo, cache, rdVars, cbVars, sgVars, fetch>>

\* The db.run of updateAllMetalPrices in src/unnamed/part_000, for symbol s.
runInsertOnConflictUpdate(s, p) ==
    /\ faults < MaxWrites
    /\ faults' = faults + 1
    /\ pricesTable' = insertOnConflictUpdate(pricesTable, s, p, now)
    /\ ev' = [type |-> "sql", metal |-> s, before |-> pricesTable]
    /\ UNCHANGED <<now, prices, calls, batch, nextTick, tickNo, cache, rdVars, cbVars, sgVars, fetch>>

advanceTimeTable ==
    /\ now + TimeStepTable <= MaxTimeTable
    /\ now' = now + TimeStepTable
    /\ ev' = NoIxEv
    /\ UNCHANGED <<prices, calls, batch, nextTick, tickNo, cache, faults, rdVars, cbVars, sgVars, xVars>>

NextTable ==
    \/ \E s \in metals, p \in TablePrices : runInsertOrReplace(s, p)
    \/ \E s \in metals, p \in TablePrices : runInsertOnConflictUpdate(s, p)
    \/ advanceTimeTable

SpecTable == InitTable /\ [][NextTable]_vars

(***************************************************************************)
(* src/index.js: one call of fetchMetalPrice(metalSymbol, retries).        *)
(***************************************************************************)
MaxRetries == 2
TimeStepFetch == 1000

RetryCounts == 0..MaxRetries

\* The symbols tried: a configured one, one that is no property of metals,
\* and one that metals inherits.
FetchSymbols == {metalKeys[1], "XXX", "constructor"}

fetchFrame == <<cbVars, sgVars, ixVars, pricesTable>>

InitFetch ==
    /\ now = 0
    /\ cbQuiet
    /\ sgQuiet
    /\ ixQuiet
    /\ xQuiet

\* fetchMetalPrice is called: the lookup, the throw for an unknown symbol,
\* or the first axios.get.
fetchMetalPrice(s, r) ==
    /\ fetch = NoFetch
    /\ fetch' = IF ~truthy(metalsGet(s))
                THEN [pc |-> "thrown", sym |-> s, retries |-> r, attempt |-> 0, sent |-> 0,
                      due |-> 0, ended |-> 0, gap |-> 0, sentAtOk |-> -1, price |-> 0,
                      error |-> [kind |-> "unsupported", attempt |-> -1]]
                ELSE [pc |-> "waiting", sym |-> s, retries |-> r, attempt |-> 0, sent |-> 1,
                      due |-> now + axiosTimeout, ended |-> 0, gap |-> 0, sentAtOk |-> -1,
                      price |-> 0, error |-> [kind |-> "none", attempt |-> -1]]
    /\ UNCHANGED <<now, fetchFrame>>

\* axios.get settles: the function returns the quote, or the catch block
\* rethrows after the last attempt, or it starts the backoff timer.
axiosSettles(kind, p) ==
    /\ fetch # NoFetch
    /\ fetch.pc = "waiting"
    /\ kind \in SettleKinds(fetch.sym)
    /\ fetch' =
          IF kind = "ok"
          THEN [fetch EXCEPT !.pc = "returned", !.price = p, !.sentAtOk = fetch.sent]
          ELSE IF fetch.attempt = fetch.retries
          THEN [fetch EXCEPT !.pc = "thrown",
                             !.error = [kind |-> "request", attempt |-> fetch.attempt]]
          ELSE [fetch EXCEPT !.pc = "backoff", !.due = now + backoff(fetch.attempt),
                             !.ended = now,
                             !.error = [kind |-> "request", attempt |-> fetch.attempt]]
    /\ UNCHANGED <<now, fetchFrame>>

\* The backoff timer fires: attempt++ and the next axios.get.
backoffElapsed ==
    /\ fetch # NoFetch
    /\ fetch.pc = "backoff"
    /\ now >= fetch.due
    /\ fetch' = [fetch EXCEPT !.pc = "waiting", !.attempt = fetch.attempt + 1,
                              !.sent = fetch.sent + 1, !.due = now + axiosTimeout,
                              !.gap = now - fetch.ended]
    /\ UNCHANGED <<now, fetchFrame>>

\* The clock is observed again; the timeout of axios and a timer that is due
\* come first.
advanceTimeFetch ==
    /\ fetch # NoFetch
    /\ \/ fetch.pc = "waiting" /\ now + TimeStepFetch <= fetch.due
       \/ fetch.pc = "backoff" /\ now < fetch.due
    /\ now' = now + TimeStepFetch
    /\ UNCHANGED <<fetch, fetchFrame>>

NextFetch ==
    \/ \E s \in FetchSymbols, r \in RetryCounts : fetchMetalPrice(s, r)
    \/ \E kind \in FetchKinds, p \in SourcePrices : axiosSettles(kind, p)
    \/ backoffElapsed
    \/ advanceTimeFetch

SpecFetch == InitFetch /\ [][NextFetch]_vars

\* Every request is answered or times out, every timer fires, time passes.
FairSpecFetch ==
    /\ SpecFetch
    /\ WF_vars(\E kind \in FetchKinds, p \in SourcePrices : axiosSettles(kind, p))
    /\ WF_vars(backoffElapsed)
    /\ WF_vars(advanceTimeFetch)

(***************************************************************************)
(* src/index.js: the response cache on its own.  getFromCache, setCache    *)
(* and the invalidation loop are applied to caches that are filled up to   *)
(* the size limit.                                                         *)
(***************************************************************************)
MaxTimeCache == 10000
TimeStepCache == 5000
MaxPuts == 3

\* getCacheKey of GET /api/signals?limit=n.
signalKey(n) ==
    getCacheKey([method |-> "GET", path |-> <<"/api", "/signals">>,
                 query |-> <<"{\"limit\":\"" \o ToString(n) \o "\"}">>])

listingKey == getCacheKey(listRequest(NoQuery))

\* The duration that the route of the key hands to cacheMiddleware.
durationOf(key) ==
    IF key = listingKey THEN CACHE_DURATION.prices ELSE CACHE_DURATION.signals

\* The cache after the answers to GET /api/signals?limit=1 .. limit=n have
\* been stored at time 0, for n <= cacheLimit + 1: none of these calls of
\* setCache finds more than cacheLimit entries, so each appends its entry.
filled(n) ==
    [i \in 1..n |-> [key |-> signalKey(i), data |-> [success |-> TRUE, timestamp |-> 0],
                     timestamp |-> 0, duration |-> durationOf(signalKey(i))]]

FillLevels == {0, cacheLimit, cacheLimit + 1}

\* JSON.stringify(req.query): the members of the object in the order in
\* which the query string named them.
queryJson(params) ==
    IF params = <<>> THEN <<"{}">>
    ELSE <<"{">>
         \o [i \in 1..Len(params) |->
               "\"" \o params[i][1] \o "\":\"" \o params[i][2] \o "\""]
         \o <<"}">>

\* GET /api/signals?limit=10&type=buy and GET /api/signals?type=buy&limit=10.
ParamOrders ==
    {<< <<"limit", "10">>, <<"type", "buy">> >>, << <<"type", "buy">>, <<"limit", "10">> >>}

paramsKey(params) ==
    getCacheKey([method |-> "GET", path |-> <<"/api", "/signals">>,
                 query |-> queryJson(params)])

\* The keys requested: one that the filled caches hold, two that they do not
\* hold, the price listing, and one request with its parameters in either order.
CacheKeys ==
    {signalKey(1), signalKey(cacheLimit + 2), signalKey(cacheLimit + 3), listingKey}
        \cup {paramsKey(params) : params \in ParamOrders}

\* setCache, lines 48-51: the entry that the size check deletes, or null.
evicted(c) == IF Len(c) > cacheLimit THEN Head(c) ELSE null

cacheFrame == <<prices, calls, batch, nextTick, tickNo, faults, req, tzOffset, lastCached, cbVars, sgVars, xVars>>

InitCache ==
    /\ now = 0
    /\ xQuiet
    /\ cbQuiet
    /\ sgQuiet
    /\ prices = [s \in metals |-> NoRow]
    /\ calls = [c \in TickCallIds |-> IdleTask]
    /\ batch = [k \in Slots |-> "none"]
    /\ nextTick = 0
    /\ tickNo = 0
    /\ cache \in {filled(n) : n \in FillLevels}
    /\ faults = 0
    /\ req = IdleReq
    /\ requests = 0
    /\ tzOffset = 0
    /\ lastCached = NoRow
    /\ ev = NoIxEv

\* cacheMiddleware looks the key up.
cacheLookup(key) ==
    /\ ev' = [type |-> "get", key |-> key, result |-> getFromCache(cache, key, now)]
    /\ UNCHANGED <<now, cache, requests, cacheFrame>>

\* The res.json of cacheMiddleware stores an answer with status 200.
cacheStore(key) ==
    /\ requests < MaxPuts
    /\ requests' = requests + 1
    /\ cache' = setCache(cache, key, [success |-> TRUE, timestamp |-> now],
                         durationOf(key), now)
    /\ ev' = [type |-> "put", key |-> key, before |-> cache, evicted |-> evicted(cache)]
    /\ UNCHANGED <<now, cacheFrame>>

\* A refresh tick completes and deletes the price listings.
cacheInvalidate ==
    /\ \E i \in 1..Len(cache) : includesApiPrices(cache[i].key)
    /\ cache' = deletePriceKeys(cache)
    /\ ev' = NoIxEv
    /\ UNCHANGED <<now, requests, cacheFrame>>

advanceTimeCache ==
    /\ now + TimeStepCache <= MaxTimeCache
    /\ now' = now + TimeStepCache
    /\ ev' = NoIxEv
    /\ UNCHANGED <<cache, requests, cacheFrame>>

NextCache ==
    \/ \E key \in CacheKeys : cacheLookup(key)
    \/ \E key \in CacheKeys : cacheStore(key)
    \/ cacheInvalidate
    \/ advanceTimeCache

SpecCache == InitCache /\ [][NextCache]_vars

(***************************************************************************)
(* src/index.js: a quote on its way from the body of the source through    *)
(* fetchMetalPrice and the INSERT OR REPLACE of the refresh tick to the     *)
(* answer of GET /api/prices.  Amounts are in cents.                       *)
(***************************************************************************)
\* A field that the body does not have.
Absent == -2

\* The values of data.ask, data.bid and data.price that are tried.
FieldValues == {Absent, 0, 200050, 200150}

SourceBodies == [ask : FieldValues, bid : FieldValues, price : FieldValues]

\* a || b: an absent field and 0 are falsy.
orElse(a, b) == IF a # Absent /\ a # 0 THEN a ELSE b

\* Math.round(x * 100) / 100 of a sum of two amounts halved; undefined + x
\* is NaN.  The double next to an exact half of a cent may lie on either
\* side of it, so both roundings are possible then.
roundedHalf(a, b) ==
    IF a = Absent \/ b = Absent THEN {NoPrice}
    ELSE IF (a + b) % 2 = 0 THEN {(a + b) \div 2}
    ELSE {(a + b) \div 2, (a + b) \div 2 + 1}

\* fetchMetalPrice, lines 133-141: the prices that the returned quote can carry.
quotePrices(data) ==
    roundedHalf(orElse(data.ask, data.price), orElse(data.bid, data.price))

\* rows.forEach(row => prices[row.metal] = ...) of GET /api/prices.
rowsByMetal(rows) ==
    [s \in metals |->
        IF \E i \in 1..Len(rows) : rows[i].metal = s
        THEN LET i == CHOOSE i \in 1..Len(rows) : rows[i].metal = s
             IN [price |-> rows[i].price, last_updated |-> rows[i].last_updated]
        ELSE NoRow]

\* The symbol whose quote is followed.
quoteSymbol == metalKeys[1]

\* The row of the symbol that an earlier tick has stored.
EarlierRows == <<[metal |-> quoteSymbol, price |-> 199900, last_updated |-> 0]>>

InitQuote ==
    /\ now = 0
    /\ cbQuiet
    /\ sgQuiet
    /\ ixQuiet
    \* the tick has called fetchMetalPrice, which awaits axios.get
    /\ fetch = [pc |-> "waiting", body |-> [ask |-> Absent, bid |-> Absent, price |-> Absent],
                price |-> NoPrice, written |-> FALSE]
    /\ pricesTable \in {<<>>, EarlierRows}

\* axios.get resolves with a body without an error field: fetchMetalPrice
\* returns the quote and the tick calls db.run.
quoteReturned(data, p) ==
    /\ fetch.pc = "waiting"
    /\ p \in quotePrices(data)
    /\ fetch' = [fetch EXCEPT !.pc = "writing", !.body = data, !.price = p]
    /\ UNCHANGED <<now, cbVars, sgVars, ixVars, pricesTable>>

\* The callback of db.run: resolve(symbol) or reject(err).  With it the last
\* promise of the tick has settled.
quoteWritten(err) ==
    /\ fetch.pc = "writing"
    /\ pricesTable' = IF err THEN pricesTable
                      ELSE insertOrReplaceInto(pricesTable, quoteSymbol, fetch.price, now)
    /\ fetch' = [fetch EXCEPT !.pc = "settled",
                              !.written = ~err /\ ~notNullFails(fetch.price)]
    /\ UNCHANGED <<now, cbVars, sgVars, ixVars>>

\* updateAllMetalPrices resumes after await Promise.allSettled(...).
quoteTickDone ==
    /\ fetch.pc = "settled"
    /\ cache' = deletePriceKeys(cache)
    /\ fetch' = [fetch EXCEPT !.pc = "done"]
    /\ ev' = NoIxEv
    /\ UNCHANGED <<now, prices, calls, batch, nextTick, tickNo, faults, rdVars, cbVars, sgVars,
                   pricesTable>>

\* The callback of db.all of GET /api/prices, reading the rows of the table.
quoteListingDone ==
    /\ req.pc = "listing"
    /\ send(200, listing(rowsByMetal(pricesTable), now), "listing")
    /\ UNCHANGED <<now, prices, calls, batch, nextTick, tickNo, faults, requests, tzOffset,
                   cbVars, sgVars, xVars>>

NextQuote ==
    \/ \E data \in SourceBodies : \E p \in quotePrices(data) : quoteReturned(data, p)
    \/ \E err \in BOOLEAN : quoteWritten(err)
    \/ quoteTickDone
    \/ getPrices(NoQuery)
    \/ quoteListingDone

SpecQuote == InitQuote /\ [][NextQuote]_vars

(***************************************************************************)
(* src/index.js: GET /api/signals behind cacheMiddleware and POST          *)
(* /api/signals.  The statements of a request are handed to SQLite, which  *)
(* runs them one at a time in any order; the callbacks run on the event    *)
(* loop in the order in which the statements finished.                     *)
(***************************************************************************)
MaxTimeSig == 10000
TimeStepSig == 2500
MaxSignals == 2

PageQuery == <<"{\"page\":\"", "1", "\"}">>
SigQueries == {NoQuery, PageQuery}

signalsRequest(q) == [method |-> "GET", path |-> <<"/api", "/signals">>, query |-> q]

\* key.includes('/api/signals')
includesApiSignals(key) ==
    \E i \in 1..(Len(key) - 1) : key[i] = "/api" /\ key[i + 1] = "/signals"

\* POST /api/signals, the loop that deletes the signal listings from the cache.
deleteSignalKeys(c) == SelectSeq(c, LAMBDA e : ~includesApiSignals(e.key))

\* The body that GET /api/signals builds from countRow and rows.
signalsPayload(rows, total, t) ==
    [success |-> TRUE, signals |-> 1..rows, pagination |-> [total |-> total], timestamp |-> t]

InitSignals ==
    /\ now = 0
    /\ cbQuiet
    /\ xQuiet
    /\ prices = [s \in metals |-> NoRow]
    /\ calls = [c \in TickCallIds |-> IdleTask]
    /\ batch = [k \in Slots |-> "none"]
    /\ nextTick = 0
    /\ tickNo = 0
    /\ cache = <<>>
    /\ faults = 0
    /\ req = IdleReq
    /\ requests = 0
    /\ tzOffset = 0
    /\ lastCached = NoRow
    /\ ev = NoIxEv
    /\ signals = 0
    /\ sigGet = NoSigReq
    /\ sigPost = NoSigReq
    /\ completed = <<>>
    /\ acked = 0
    /\ sigEv = NoIxEv

sigFrame == <<cbVars, xVars, prices, calls, batch, nextTick, tickNo, faults, rdVars, ev>>

\* GET /api/signals arrives: cacheMiddleware, then the handler up to db.get.
getSignals(q) ==
    /\ sigGet.pc = "idle"
    /\ LET key == getCacheKey(signalsRequest(q))
           cached == getFromCache(cache, key, now)
       IN IF cached # null
          THEN /\ sigEv' = [type |-> "answered", status |-> 200, body |-> cached,
                            via |-> "cache", acked |-> acked]
               /\ UNCHANGED sigGet
          ELSE /\ sigGet' = [pc |-> "count", key |-> key, acked |-> acked, total |-> 0,
                             rows |-> 0, done |-> FALSE]
               /\ sigEv' = [type |-> "miss", key |-> key]
    /\ UNCHANGED <<now, cache, signals, sigPost, completed, acked, sigFrame>>

\* POST /api/signals arrives: the check of the required fields, then db.run.
postSignal(valid) ==
    /\ sigPost.pc = "idle"
    /\ signals < MaxSignals
    /\ IF valid
       THEN /\ sigPost' = [pc |-> "insert", err |-> FALSE, done |-> FALSE]
            /\ sigEv' = NoIxEv
       ELSE /\ sigEv' = [type |-> "posted", status |-> 400]
            /\ UNCHANGED sigPost
    /\ UNCHANGED <<now, cache, signals, sigGet, completed, acked, sigFrame>>

\* SQLite runs the SELECT COUNT(*) or the SELECT ... LIMIT of the GET.
dbRunsSelect ==
    /\ sigGet.pc \in {"count", "all"}
    /\ ~sigGet.done
    /\ sigGet' = IF sigGet.pc = "count"
                 THEN [sigGet EXCEPT !.total = signals, !.done = TRUE]
                 ELSE [sigGet EXCEPT !.rows = signals, !.done = TRUE]
    /\ completed' = Append(completed, "get")
    /\ sigEv' = NoIxEv
    /\ UNCHANGED <<now, cache, signals, sigPost, acked, sigFrame>>

\* SQLite runs the INSERT of the POST, or fails to.
dbRunsInsert(ok) ==
    /\ sigPost.pc = "insert"
    /\ ~sigPost.done
    /\ signals' = IF ok THEN signals + 1 ELSE signals
    /\ sigPost' = [sigPost EXCEPT !.err = ~ok, !.done = TRUE]
    /\ completed' = Append(completed, "post")
    /\ sigEv' = NoIxEv
    /\ UNCHANGED <<now, cache, sigGet, acked, sigFrame>>

\* The callback of db.get(countQuery): it hands the SELECT of the rows to db.all.
countDone(err) ==
    /\ completed # <<>> /\ Head(completed) = "get"
    /\ sigGet.pc = "count"
    /\ completed' = Tail(completed)
    /\ IF err
       THEN /\ sigGet' = NoSigReq
            /\ sigEv' = [type |-> "answered", status |-> 500,
                         body |-> [error |-> "Database error"], via |-> "db_error",
                         acked |-> sigGet.acked]
       ELSE /\ sigGet' = [sigGet EXCEPT !.pc = "all", !.done = FALSE]
            /\ sigEv' = NoIxEv
    /\ UNCHANGED <<now, cache, signals, sigPost, acked, sigFrame>>

\* The callback of db.all: the answer goes through the res.json of cacheMiddleware.
rowsDone(err) ==
    /\ completed # <<>> /\ Head(completed) = "get"
    /\ sigGet.pc = "all"
    /\ completed' = Tail(completed)
    /\ sigGet' = NoSigReq
    /\ LET status == IF err THEN 500 ELSE 200
           body == IF err THEN [error |-> "Database error"]
                   ELSE signalsPayload(sigGet.rows, sigGet.total, now)
       IN /\ sigEv' = [type |-> "answered", status |-> status, body |-> body,
                       via |-> IF err THEN "db_error" ELSE "db", acked |-> sigGet.acked]
          /\ cache' = IF storesResponse(status)
                      THEN setCache(cache, sigGet.key, body, CACHE_DURATION.signals, now)
                      ELSE cache
    /\ UNCHANGED <<now, signals, sigPost, acked, sigFrame>>

\* The callback of db.run: the signal listings leave the cache, then the answer.
insertDone ==
    /\ completed # <<>> /\ Head(completed) = "post"
    /\ completed' = Tail(completed)
    /\ sigPost' = NoSigReq
    /\ IF sigPost.err
       THEN /\ sigEv' = [type |-> "posted", status |-> 500]
            /\ UNCHANGED <<cache, acked>>
       ELSE /\ cache' = deleteSignalKeys(cache)
            /\ acked' = acked + 1
            /\ sigEv' = [type |-> "posted", status |-> 200]
    /\ UNCHANGED <<now, signals, sigGet, sigFrame>>

\* Time passes; the statements in progress finish first.
advanceTimeSig ==
    /\ sigGet.pc = "idle"
    /\ sigPost.pc = "idle"
    /\ now + TimeStepSig <= MaxTimeSig
    /\ now' = now + TimeStepSig
    /\ sigEv' = NoIxEv
    /\ UNCHANGED <<cache, signals, sigGet, sigPost, completed, acked, sigFrame>>

NextSignals ==
    \/ \E q \in SigQueries : getSignals(q)
    \/ \E valid \in BOOLEAN : postSignal(valid)
    \/ dbRunsSelect
    \/ \E ok \in BOOLEAN : dbRunsInsert(ok)
    \/ \E err \in BOOLEAN : countDone(err)
    \/ \E err \in BOOLEAN : rowsDone(err)
    \/ insertDone
    \/ advanceTimeSig

SpecSignals == InitSignals /\ [][NextSignals]_vars

(***************************************************************************)
(* Properties of the cache.                                                *)
(***************************************************************************)

\* C13: a request is answered by the cache middleware exactly when the cache
\* holds an entry of its key that is younger than the entry's duration; the
\* answer is then the payload of that entry and no route handler is started.
\* An entry that a refresh tick or an eviction has removed is computed again.
C13_CacheHitIffFreshEntry ==
    /\ (ev.type = "handled" /\ ev.via = "cache") =>
          /\ \E i \in 1..Len(cache) :
                /\ cache[i].key = ev.key
                /\ now - cache[i].timestamp < cache[i].duration
                /\ cache[i].data = ev.body
          /\ ev.status = 200
          /\ req.pc \in {"idle", "crashed"}
    /\ ev.type = "miss" =>
          ~ \E i \in 1..Len(cache) :
                cache[i].key = ev.key /\ now - cache[i].timestamp < cache[i].duration

C13_Witness ==
    /\ ev.type = "handled"
    /\ ev.via = "cache"
    /\ now > 0

\* C13 as stated: once a response has been cached for a key, every request
\* with that key within the duration of the entry is answered from the cache
\* with the same payload.
C13_RepeatWithinTtlIsCached ==
    (/\ ev.type \in {"handled", "miss"}
     /\ "key" \in DOMAIN ev
     /\ lastCached # NoRow
     /\ ev.key = lastCached.key
     /\ now - lastCached.timestamp < lastCached.duration) =>
        /\ ev.type = "handled"
        /\ ev.via = "cache"
        /\ ev.body = lastCached.data

\* The key belongs to a price-listing endpoint: its path begins with /api/prices.
priceListingKey(key) ==
    Len(key) >= 4 /\ key[3] = "/api" /\ key[4] = "/prices"

\* C15: the step that completes a refresh tick leaves no entry of a
\* price-listing endpoint in the cache and leaves the entries of every other
\* endpoint as they were.
C15_SelectiveInvalidation ==
    [][tickNo' # tickNo =>
          /\ \A i \in 1..Len(cache') : ~priceListingKey(cache'[i].key)
          /\ cache' = SelectSeq(cache, LAMBDA e : ~priceListingKey(e.key))]_vars

\* C14: getFromCache returns the stored payload if the cache holds an entry of
\* the key with now - timestamp < duration, and reports a miss in every
\* other case.
C14_GetFromCacheIffFresh ==
    ev.type = "get" =>
        IF \E i \in 1..Len(cache) :
              cache[i].key = ev.key /\ now - cache[i].timestamp < cache[i].duration
        THEN \E i \in 1..Len(cache) : cache[i].key = ev.key /\ ev.result = cache[i].data
        ELSE ev.result = null

\* A lookup at the very moment the duration of the entry has passed.
C14_Witness ==
    /\ ev.type = "get"
    /\ ev.result = null
    /\ \E i \in 1..Len(cache) :
          cache[i].key = ev.key /\ now - cache[i].timestamp = cache[i].duration

\* C16: the cache never holds more than cacheLimit + 1 entries.
C16_SizeAtMostLimitPlusOne ==
    Len(cache) <= cacheLimit + 1

\* A store into a cache that was over the limit.
C16_Witness ==
    /\ ev.type = "put"
    /\ Len(ev.before) = cacheLimit + 1
    /\ Len(cache) = cacheLimit + 1
    /\ \A i \in 1..Len(ev.before) : ev.before[i].key # ev.key

\* C17: the entry that setCache evicts has the smallest write timestamp of
\* the entries that the cache held.
C17_EvictsOldestWrite ==
    (ev.type = "put" /\ ev.evicted # null) =>
        \A i \in 1..Len(ev.before) : ev.evicted.timestamp <= ev.before[i].timestamp

\* C18: the prices table never holds two rows of one symbol, and a symbol
\* that has a row keeps a row through every write.
C18_OneRowPerSymbolNeverRemoved ==
    /\ [](\A i, j \in 1..Len(pricesTable) :
              pricesTable[i].metal = pricesTable[j].metal => i = j)
    /\ [][\A i \in 1..Len(pricesTable) : \E j \in 1..Len(pricesTable') :
              pricesTable'[j].metal = pricesTable[i].metal]_vars

\* A write has met the row of its symbol and has put the new values there.
C18_Witness ==
    /\ ev.type = "sql"
    /\ \E i \in 1..Len(ev.before) : \E j \in 1..Len(pricesTable) :
          /\ ev.before[i].metal = ev.metal
          /\ pricesTable[j].metal = ev.metal
          /\ pricesTable[j] # ev.before[i]
    /\ Len(pricesTable) = Len(ev.before)
    /\ Len(pricesTable) > 1

\* C19: a call of fetchMetalPrice for a symbol that is not configured has
\* thrown the unsupported-symbol error, has sent no request and has made no
\* retry.
C19_UnsupportedSymbolFailsFast ==
    (fetch # NoFetch /\ fetch.sym \notin metals) =>
        /\ fetch.pc = "thrown"
        /\ fetch.error.kind = "unsupported"
        /\ fetch.sent = 0
        /\ fetch.attempt = 0

\* C20: a call of fetchMetalPrice sends at most retries + 1 requests, sends
\* none after a successful one, lets the backoff delay pass before each
\* further attempt, and ends by returning a quote or by throwing the error
\* of its last attempt.
C20_RetryBoundedAndTerminates ==
    /\ [](fetch # NoFetch =>
            /\ fetch.sent <= fetch.retries + 1
            /\ fetch.sentAtOk # -1 => (fetch.pc = "returned" /\ fetch.sent = fetch.sentAtOk)
            /\ fetch.attempt > 0 => fetch.gap >= backoffUnit * fetch.attempt
            /\ fetch.pc = "returned" => fetch.price \in SourcePrices
            /\ (fetch.pc = "thrown" /\ fetch.sent > 0) =>
                  fetch.error = [kind |-> "request", attempt |-> fetch.sent - 1])
    /\ (fetch # NoFetch) ~> (fetch # NoFetch /\ fetch.pc \in {"returned", "thrown"})

\* All attempts have been used and the last error has been thrown.
C20_Witness ==
    /\ fetch # NoFetch
    /\ fetch.pc = "thrown"
    /\ fetch.retries = MaxRetries
    /\ fetch.sent = MaxRetries + 1

\* C21: a call whose request is answered by a body with an error field ends
\* with that request: it fails and sends no further request.
C21_SourceErrorIsNotRetried ==
    [][(cbEv'.type = "response" /\ cbEv'.kind = "body_error") =>
          \A c \in CbCallIds :
              (cbCalls[c].pc = "inflight" /\ cbCalls'[c] # cbCalls[c]) =>
                  cbCalls'[c].pc = "idle"]_vars

\* C23: there is one failure counter for all symbols and callers: a failed
\* attempt of any call adds one to it (after the reset that a response in
\* HALF_OPEN makes), the third such failure opens the breaker, and while the
\* breaker is OPEN within the recovery timeout a new call is refused whatever
\* its symbol.
C23_SharedFailureCounter ==
    /\ [][\A c \in CbCallIds :
             (cbCalls[c].pc = "inflight" /\ cbCalls'[c] # cbCalls[c] /\ FailedResponse') =>
                 /\ failureCount' =
                       (IF cbEv'.kind = "body_error" /\ circuitBreakerState = "HALF_OPEN"
                        THEN 0 ELSE failureCount) + 1
                 /\ failureCount' >= FAILURE_THRESHOLD => circuitBreakerState' = "OPEN"]_vars
    /\ []((cbEv.type \in {"tick", "request"} /\ cbEv.pre = "OPEN" /\ cbEv.net) =>
             now - lastFailureTime > RECOVERY_TIMEOUT)

\* The failures of the first tick's calls for two symbols have opened the breaker.
C23_Witness ==
    /\ FailedResponse
    /\ failureCount = FAILURE_THRESHOLD
    /\ circuitBreakerState = "OPEN"
    /\ cbFetches = 0
    /\ cbTickNo = 1

\* C26: a refresh tick that finds the breaker OPEN when RECOVERY_TIMEOUT or
\* more has passed since it was opened, exactly RECOVERY_TIMEOUT included, is
\* admitted as the HALF_OPEN trial.
C26_RecoveryTimeoutInclusive ==
    (cbEv.type = "tick" /\ cbEv.pre = "OPEN"
        /\ now - lastFailureTime >= RECOVERY_TIMEOUT) =>
            (cbEv.net /\ circuitBreakerState = "HALF_OPEN")

\* C27: a response with an HTTP error status never yields a quote: the catch
\* block of fetchMetalPrice runs and counts it.
C27_HttpErrorStatusFails ==
    (cbEv.type = "response" /\ cbEv.kind = "client_error") =>
        /\ cbEv.catchCount # -1
        /\ failureCount = cbEv.catchCount + 1

\* C29: while the breaker is CLOSED failureCount is below FAILURE_THRESHOLD,
\* and while it is OPEN failureCount is FAILURE_THRESHOLD or more.
C29_StateAgreesWithCount ==
    /\ circuitBreakerState = "CLOSED" => failureCount < FAILURE_THRESHOLD
    /\ circuitBreakerState = "OPEN" => failureCount >= FAILURE_THRESHOLD

\* Fetches that were in flight together have failed after the breaker had opened.
C29_Witness ==
    /\ circuitBreakerState = "OPEN"
    /\ failureCount > FAILURE_THRESHOLD
    /\ FailedResponse

\* C30: when a call of fetchMetalPrice has returned a quote the breaker is
\* CLOSED.
C30_SuccessLeavesClosed ==
    (cbEv.type = "response" /\ cbEv.kind = "ok") => circuitBreakerState = "CLOSED"

\* C28: the handler answers from the stored row only if the row was written
\* less than freshWindow ago, and it starts a live fetch only if the symbol
\* had no row or a row written freshWindow or more ago.
C28_FreshRowServedWithoutFetch ==
    /\ (ev.type = "handled" /\ ev.via = "row") =>
          /\ prices[ev.body.symbol] # NoRow
          /\ now - prices[ev.body.symbol].last_updated < freshWindow
    /\ req.pc \in {"inflight", "backoff"} =>
          (req.row = NoRow \/ req.started - req.row.last_updated >= freshWindow)

\* The set of the name/value pairs of a query.
pairsOf(params) == {params[i] : i \in 1..Len(params)}

\* C24: once the answer to a request has been stored, a request with the same
\* method, path and query parameters in another order finds it under its key.
C24_CacheKeyIsCanonical ==
    \A p1, p2 \in ParamOrders :
        (ev.type = "put" /\ ev.key = paramsKey(p1) /\ pairsOf(p1) = pairsOf(p2)) =>
            getFromCache(cache, paramsKey(p2), now) # null

\* a ?? b: the first operand unless the body lacks it.
orIfAbsent(a, b) == IF a # Absent THEN a ELSE b

\* C22: for a body with none of ask, bid and price fetchMetalPrice throws; for
\* any other body whose ask-or-price and bid-or-price exist it returns their
\* mean, to the cent.
C22_MalformedBodyFails ==
    fetch.pc \in {"writing", "settled", "done", "thrown"} =>
        LET a == orIfAbsent(fetch.body.ask, fetch.body.price)
            b == orIfAbsent(fetch.body.bid, fetch.body.price)
        IN /\ (fetch.body.ask = Absent /\ fetch.body.bid = Absent
                  /\ fetch.body.price = Absent) => fetch.pc = "thrown"
           /\ (a # Absent /\ b # Absent) =>
                 /\ fetch.pc # "thrown"
                 /\ fetch.price # NoPrice
                 /\ Abs(2 * fetch.price - (a + b)) <= 1

\* The tick has stored the quote for a body with ask 2001.50 and bid 2000.50.
quoteStored ==
    /\ fetch.pc = "done"
    /\ fetch.written
    /\ fetch.body.ask = 200150
    /\ fetch.body.bid = 200050

\* C25: with ask 2001.50 and bid 2000.50 from the source, the tick stores the
\* price 2001.00 for the symbol, and a read of GET /api/prices after the tick
\* returns that price.
C25_TickStoresMidAndReadReturnsIt ==
    quoteStored =>
        /\ rowsByMetal(pricesTable)[quoteSymbol] # NoRow
        /\ rowsByMetal(pricesTable)[quoteSymbol].price = 200100
        /\ (ev.type = "handled" /\ ev.status = 200) =>
              /\ quoteSymbol \in DOMAIN ev.body.prices
              /\ ev.body.prices[quoteSymbol].price = 200100

\* A listing was cached before the tick wrote, and a read after the tick has
\* been answered from the table.
C25_Witness ==
    /\ quoteStored
    /\ ev.type = "handled"
    /\ ev.via = "listing"
    /\ requests = 2

\* C31: a call that is refused because the breaker is OPEN, and a call that
\* is refused for its symbol, leave circuitBreakerState, failureCount and
\* lastFailureTime as they were.
C31_RejectionLeavesBreaker ==
    [][(\/ cbEv'.type = "tick" /\ cbTickNo' # cbTickNo /\ ~cbEv'.net
        \/ cbEv'.type = "request" /\ cbFetches' # cbFetches /\ ~cbEv'.net
        \/ cbEv'.type = "unsupported" /\ cbFetches' # cbFetches) =>
           UNCHANGED <<circuitBreakerState, failureCount, lastFailureTime>>]_vars

\* A tick all of whose calls the OPEN breaker has refused, after the time of
\* the failure that opened it.
C31_Witness ==
    /\ cbEv.type = "tick"
    /\ cbEv.pre = "OPEN"
    /\ ~cbEv.net
    /\ now > lastFailureTime

C33_FailedFetchWritesNothing ==
    /\ \A s \in metals : prices[s] # NoRow => prices[s].price \in SourcePrices
    /\ ev.type = "settle" =>
          \A s \in metals : ev.tasks[s] = "null" =>
              (prices[s] = NoRow \/ prices[s].tick # ev.tick)

\* A tick ends with the fetch of one symbol failed and its row as it was,
\* while the same tick has stored the quote of another symbol.
C33_Witness ==
    /\ ev.type = "settle"
    /\ \E s, o \in metals : /\ ev.tasks[s] = "null"
                            /\ prices[s] = NoRow
                            /\ ev.tasks[o] = "resolved"
                            /\ prices[o] # NoRow
                            /\ prices[o].tick = ev.tick

\* C33 as stated: when a tick ends with the fetch of S failed, the row of S is
\* one that was stored before that tick (no row, or a row of an earlier tick).
C33_RowAfterTickIsRowBefore ==
    ev.type = "settle" =>
        \A s \in metals : ev.tasks[s] = "null" =>
            (prices[s] = NoRow \/ prices[s].tick < ev.tick)

\* C34: the cache holds no error body, an answer taken from the cache is a
\* 200 with a success body, and a step puts an entry into the cache only when
\* it sends that entry's payload with status 200.
C34_OnlySuccessfulResponsesCached ==
    /\ [](/\ \A i \in 1..Len(cache) : "error" \notin DOMAIN cache[i].data
          /\ (ev.type = "handled" /\ ev.via = "cache") =>
                (ev.status = 200 /\ "error" \notin DOMAIN ev.body))
    /\ [][\A i \in 1..Len(cache') :
             (\A j \in 1..Len(cache) : cache[j] # cache'[i]) =>
                 /\ ev'.type = "handled"
                 /\ ev'.status = 200
                 /\ ev'.via # "cache"
                 /\ ev'.body = cache'[i].data]_vars

\* An error answer is sent while the cache holds a payload, and the cache
\* holds nothing else afterwards.
C34_Witness ==
    /\ ev.type = "handled"
    /\ ev.status \in {400, 500}
    /\ Len(cache) = 1
    /\ cache[1] = lastCached

\* C35: no entry of the response cache holds a payload with source
\* 'fallback', and no answer taken from the cache is such a payload.
C35_FallbackIsNotCached ==
    /\ \A i \in 1..Len(cache) : cache[i].data.source # "fallback"
    /\ (ev.type = "handled" /\ ev.via = "cache") => ev.body.source # "fallback"

\* C36: a GET /api/signals that arrives after POST /api/signals has confirmed
\* an insert is answered with a payload whose rows and whose total include
\* that insert.
C36_ReadAfterWriteThroughCache ==
    (sigEv.type = "answered" /\ sigEv.status = 200) =>
        /\ 1..sigEv.acked \subseteq sigEv.body.signals
        /\ sigEv.body.pagination.total >= sigEv.acked

====
